---- MODULE Spec2Model ----
(***************************************************************************)
(* Connection lifecycle manager of wa-server                               *)
(* (src/src/services/whatsappService.js, class WhatsAppService).           *)
(*                                                                         *)
(* Time is in milliseconds, as in the source.  The clock Date.now() is     *)
(* not kept as an absolute value: every instant the program remembers is   *)
(* kept relative to the present.  sinceLastAttempt is                      *)
(* Date.now() - this.lastConnectionAttempt (NoAttempt when the field is    *)
(* null), saturating at cooldownPeriod, beyond which the source no longer  *)
(* distinguishes values; a timer carries the time left to its deadline.    *)
(*                                                                         *)
(* The transport library is not part of the repository.  A transport is    *)
(* modelled by what the manager can observe of it: after construction it   *)
(* is "connecting"; it may emit a pairing code, report open once, and      *)
(* report close once; a transport on which end() was called may still      *)
(* deliver its final close event.  Transports carry no identity in the     *)
(* source beyond the reference this.socket, so the model keeps the state   *)
(* of the transport this.socket refers to, and counts the transports that  *)
(* were constructed by connect() and are no longer referenced (orphans).   *)
(***************************************************************************)
EXTENDS Integers, Sequences, FiniteSets, Bags, TLC

VARIABLES
    socket,                  \* this.socket: "null", or the state of the transport it refers to
    orphans,                 \* unreferenced transports that can still emit events, by state
    created,                 \* number of transports constructed so far
    qr,                      \* this.qr: 0 (null) or a pairing code
    isConnected,             \* this.isConnected
    connectionAttempts,      \* this.connectionAttempts
    sinceLastAttempt,        \* Date.now() - this.lastConnectionAttempt, or NoAttempt (null)
    timers,                  \* bag of armed setTimeout callbacks
    pending,                 \* number of connect() calls suspended at their await
    clearing,                \* number of clearSession() calls suspended in the deletion loop
    act,                     \* history: outcome of the last step, where it leaves no other trace
    cooldownLatch,           \* history: a close at the ceiling happened, no operator call since
    scheduledInSegment,      \* history: reconnects scheduled since the last open / operator reset
    graceLeft,               \* history: time left of the grace window of the last close that
                             \*   found a pairing code, 0 once anything but a timer intervened
    staleGrace,              \* history: armed grace timers that were armed before the last open
    watch,                   \* what a run records beyond the fields: "-", "grace",
                             \*   "faults", "clear"
    fatal,                   \* how many of the pending connect() calls have a caller that
                             \*   does not catch (startServer through initialize(), a timer)
    running,                 \* the process has not terminated
    store,                   \* the files in the session directory
    cleared,                 \* history: how the last deletion loop of clearSession() ended
    logBuffer,               \* logManager.logBuffer: the retained log entries, oldest first
    clients,                 \* logManager.clients: the responses of the open log streams
    written                  \* history: the frames the last step wrote, by client

vars == <<socket, orphans, created, qr, isConnected, connectionAttempts,
          sinceLastAttempt, timers, pending, clearing, act, cooldownLatch,
          scheduledInSegment, graceLeft, staleGrace, watch, fatal, running, store,
          cleared, logBuffer, clients, written>>

\* the state of the log manager (src/src/utils/logManager.js) and what its
\* last step wrote
logs == <<logBuffer, clients, written>>

\* the history variables of the grace window; they are recorded in the runs
\* that start with watch = "grace" and stay 0 in the others
grace == <<graceLeft, staleGrace, watch>>

Watched(v) == IF watch = "grace" THEN v ELSE 0

\* who called a pending connect() matters when it throws; it is recorded in
\* the runs that start with watch = "faults", where file operations may fail
Faulty(v) == IF watch = "faults" THEN v ELSE 0

\* the fields of ConnectionState
mgr == <<socket, qr, isConnected, connectionAttempts, sinceLastAttempt>>

(***************************************************************************)
(* Program constants (defaults of the constructor) and model bounds.       *)
(***************************************************************************)
maxReconnectAttempts == 2
baseRetryDelay == 60000
cooldownPeriod == 300000
qrGracePeriod == 120000

MaxHandles == 3          \* transports constructed in one run
MaxQr == 1               \* distinct pairing codes

NoAttempt == 0 - 1       \* this.lastConnectionAttempt === null

Min(a, b) == IF a <= b THEN a ELSE b

(***************************************************************************)
(* Transports.                                                             *)
(***************************************************************************)
IsLive(st) == st \in {"connecting", "open"}

\* transports constructed and neither closed nor ended
LiveCount == (IF IsLive(socket) THEN 1 ELSE 0) + orphans.connecting + orphans.open

NoOrphans == [connecting |-> 0, open |-> 0, ended |-> 0]

\* this.socket.end(): a live transport becomes ended and may still deliver
\* its final close; ending a closed transport has no effect
End(orph, st) ==
    IF IsLive(st) THEN [orph EXCEPT !.ended = @ + 1] ELSE orph

\* this.socket = <new transport>: the transport referenced before, if it is
\* still live, stays live without a reference
Orphan(orph, st) ==
    IF IsLive(st) THEN [orph EXCEPT ![st] = @ + 1] ELSE orph

(***************************************************************************)
(* Timers.                                                                 *)
(***************************************************************************)
ConnectTimers == {t \in BagToSet(timers) : t.kind = "connect"}

QrTimers == {t \in BagToSet(timers) : t.kind = "qr"}

\* number of armed grace timers
NumArmedQr == BagCardinality([t \in QrTimers |-> timers[t]])

Due(t) == t.left = 0

\* setTimeout(cb, delay)
SetTimeout(tb, kind, delay) ==
    tb (+) SetToBag({[kind |-> kind, left |-> delay]})

\* transports constructed or requested by an API call: the bound on API calls
Committed == created + pending + clearing

Budget == Committed < MaxHandles

\* the cooldown comparison the wrong way round
InCooldownInverted == sinceLastAttempt # NoAttempt /\ sinceLastAttempt > cooldownPeriod

\* if (this.lastConnectionAttempt) { ... if (timeSinceLastAttempt < this.cooldownPeriod)
InCooldown == sinceLastAttempt # NoAttempt /\ sinceLastAttempt < cooldownPeriod

(***************************************************************************)
(* The session directory (this.sessionPath).                               *)
(***************************************************************************)
\* '.gitkeep', the file clearSession() never deletes
Sentinel == ".gitkeep"

\* file names, in the order fs.readdir lists them
FileOrder == <<".gitkeep", "creds.json", "pre-key-1.json">>

Files == {FileOrder[i] : i \in 1..Len(FileOrder)}

\* await fs.readdir(this.sessionPath)
Readdir(dir) == SelectSeq(FileOrder, LAMBDA f : f \in dir)

\* a loop that goes on to the next file when fs.rm fails
RECURSIVE ClearLoopSwallows(_, _, _)
ClearLoopSwallows(files, failing, removed) ==
    IF files = <<>> THEN [threw |-> FALSE, removed |-> removed]
    ELSE IF Head(files) = Sentinel \/ Head(files) \in failing
    THEN ClearLoopSwallows(Tail(files), failing, removed)
    ELSE ClearLoopSwallows(Tail(files), failing, removed \cup {Head(files)})

\* for (const file of files) { if (file !== '.gitkeep') await fs.rm(...) }:
\* failing are the files fs.rm rejects on, removed the files deleted so far
RECURSIVE ClearLoop(_, _, _)
ClearLoop(files, failing, removed) ==
    IF files = <<>> THEN [threw |-> FALSE, removed |-> removed]
    ELSE IF Head(files) = Sentinel THEN ClearLoop(Tail(files), failing, removed)
    ELSE IF Head(files) \in failing THEN [threw |-> TRUE, removed |-> removed]
    ELSE ClearLoop(Tail(files), failing, removed \cup {Head(files)})

\* files.filter(f => f !== '.gitkeep')
DeletedFiles(files) == SelectSeq(files, LAMBDA f : f # Sentinel)

\* the responses that ask for the log stream
Clients == {"r1", "r2"}

NoWrites == [c \in Clients |-> <<>>]

NotCleared == [kind |-> "none", deletedFiles |-> <<>>]

\* the outcome of the deletion loop is recorded in the runs that start with
\* watch = "clear"
Clearing(v) == IF watch = "clear" THEN v ELSE NotCleared

(***************************************************************************)
(* Init: the state after the constructor.                                  *)
(***************************************************************************)
Constructed ==
    /\ socket = "null"
    /\ orphans = NoOrphans
    /\ created = 0
    /\ qr = 0
    /\ isConnected = FALSE
    /\ connectionAttempts = 0
    /\ sinceLastAttempt = NoAttempt
    /\ timers = EmptyBag
    /\ pending = 0
    /\ clearing = 0
    /\ act = "-"
    /\ cooldownLatch = FALSE
    /\ scheduledInSegment = 0
    /\ graceLeft = 0
    /\ staleGrace = 0
    /\ fatal = 0
    /\ running = TRUE
    /\ cleared = NotCleared
    /\ logBuffer = <<>>
    /\ clients = {}
    /\ written = NoWrites

\* a fresh checkout: the session directory holds the sentinel only
Init == Constructed /\ watch = "-" /\ store = {Sentinel}

\* the same state, in a run that records the history of the grace window
GraceInit == Constructed /\ watch = "grace" /\ store = {Sentinel}

\* the same state, in a run where operations may fail
FaultInit == Constructed /\ watch = "faults" /\ store = {Sentinel}

\* the state after the constructor, over a session directory with any files
ClearInit == Constructed /\ watch = "clear" /\ store \in SUBSET Files

(***************************************************************************)
(* initialize()                                                            *)
(***************************************************************************)
\* inside the cooldown window the call returns early; otherwise it records
\* the attempt and runs connect() up to the await inside it
Initialize ==
    /\ running
    /\ IF InCooldown
       THEN /\ act' = "initializeRefused"
            /\ UNCHANGED <<mgr, orphans, created, timers, pending, fatal, clearing,
                           cooldownLatch, scheduledInSegment, grace, running, store, cleared, logs>>
       ELSE /\ Budget
            /\ sinceLastAttempt' = 0
            /\ pending' = pending + 1
            /\ fatal' = Faulty(fatal + 1)
            /\ act' = "initialize"
            /\ cooldownLatch' = FALSE
            /\ UNCHANGED <<socket, orphans, created, qr, isConnected, connectionAttempts,
                           timers, clearing, scheduledInSegment, grace, running, store, cleared, logs>>

(***************************************************************************)
(* connect(), from its await to the end: constructs the transport and      *)
(* stores it in this.socket, whatever this.socket held before.             *)
(***************************************************************************)
Connect ==
    /\ running
    /\ pending > 0
    /\ created < MaxHandles
    /\ pending' = pending - 1
    /\ \/ pending > fatal /\ fatal' = fatal
       \/ fatal > 0 /\ fatal' = fatal - 1
    /\ orphans' = Orphan(orphans, socket)
    /\ socket' = "connecting"
    /\ created' = created + 1
    /\ act' = "-"
    /\ UNCHANGED <<qr, isConnected, connectionAttempts, sinceLastAttempt,
                   timers, clearing, cooldownLatch, scheduledInSegment, grace, running, store, cleared, logs>>

(***************************************************************************)
(* connect() throws at or after its await (reading the credentials,        *)
(* importing the logger or constructing the transport fails): the catch    *)
(* block logs and rethrows, no field is assigned.  A caller that is a      *)
(* route handler catches the error and answers 500.  startServer, which    *)
(* awaits initialize(), catches it and calls process.exit(1); the callback *)
(* of a reconnect timer does not catch it, and the runtime terminates the  *)
(* process on the unhandled rejection.                                     *)
(***************************************************************************)
\* the process is gone, and with it its fields, timers and transports
Exit ==
    /\ socket' = "null"
    /\ orphans' = NoOrphans
    /\ created' = 0
    /\ qr' = 0
    /\ isConnected' = FALSE
    /\ connectionAttempts' = 0
    /\ sinceLastAttempt' = NoAttempt
    /\ timers' = EmptyBag
    /\ pending' = 0
    /\ fatal' = 0
    /\ clearing' = 0
    /\ cooldownLatch' = FALSE
    /\ scheduledInSegment' = 0
    /\ graceLeft' = 0
    /\ staleGrace' = 0
    /\ running' = FALSE
    /\ act' = "exit"
    /\ UNCHANGED <<watch, store, cleared, logs>>

\* a connect() whose failure counts as an attempt and arms a reconnect
ConnectFailRetries ==
    /\ running
    /\ pending > 0
    /\ \/ /\ pending > fatal
          /\ pending' = pending - 1
          /\ act' = "connectFailed"
          /\ connectionAttempts' = connectionAttempts + 1
          /\ timers' = SetTimeout(timers, "connect", baseRetryDelay)
          /\ UNCHANGED <<socket, qr, isConnected, sinceLastAttempt, orphans, created, fatal,
                         clearing, cooldownLatch, scheduledInSegment, grace, running, store, cleared, logs>>
       \/ /\ fatal > 0
          /\ Exit

ConnectFail ==
    /\ running
    /\ pending > 0
    /\ \/ /\ pending > fatal
          /\ pending' = pending - 1
          /\ act' = "connectFailed"
          /\ UNCHANGED <<mgr, orphans, created, timers, fatal, clearing, cooldownLatch,
                         scheduledInSegment, grace, running, store, cleared, logs>>
       \/ /\ fatal > 0
          /\ Exit

(***************************************************************************)
(* Events of a transport.  src says whether the emitting transport is the  *)
(* one this.socket refers to ("socket") or an unreferenced one ("orphan"); *)
(* the listener registered in connect() does not look at the emitter.      *)
(***************************************************************************)
Sources == {"socket", "orphan"}

\* a transport in state st exists at src
Emits(src, st) ==
    IF src = "socket" THEN socket = st ELSE orphans[st] > 0

\* the transport at src moves from state st to state to ("gone": no more events)
Moved(src, st, to) ==
    IF src = "socket"
    THEN /\ socket' = (IF to = "gone" THEN "closed" ELSE to)
         /\ UNCHANGED orphans
    ELSE /\ orphans' = (IF to = "gone" THEN [orphans EXCEPT ![st] = @ - 1]
                        ELSE [orphans EXCEPT ![st] = @ - 1, ![to] = @ + 1])
         /\ UNCHANGED socket

(***************************************************************************)
(* handleConnectionUpdate(update)                                          *)
(***************************************************************************)
\* update = { qr }
UpdateQr(src, code) ==
    /\ running
    /\ Emits(src, "connecting")
    /\ qr' = code
    /\ act' = "-"
    /\ graceLeft' = 0
    /\ UNCHANGED <<socket, orphans, created, isConnected, connectionAttempts,
                   sinceLastAttempt, timers, pending, fatal, clearing, cooldownLatch,
                   scheduledInSegment, staleGrace, watch, running, store, cleared, logs>>

\* an open handler that forgets to reset the attempt counter
UpdateOpenKeepsAttempts(src) ==
    /\ running
    /\ Emits(src, "connecting")
    /\ Moved(src, "connecting", "open")
    /\ isConnected' = TRUE
    /\ qr' = 0
    /\ act' = IF qr # 0 /\ connectionAttempts > 0 THEN "open" ELSE "-"
    /\ scheduledInSegment' = 0
    /\ graceLeft' = 0
    /\ staleGrace' = Watched(NumArmedQr)
    /\ UNCHANGED <<created, connectionAttempts, sinceLastAttempt, timers, pending, fatal, clearing,
                   cooldownLatch, watch, running, store, cleared, logs>>

\* update = { connection: 'open' }
UpdateOpen(src) ==
    /\ running
    /\ Emits(src, "connecting")
    /\ Moved(src, "connecting", "open")
    /\ isConnected' = TRUE
    /\ qr' = 0
    /\ connectionAttempts' = 0
    /\ act' = IF qr # 0 /\ connectionAttempts > 0 THEN "open" ELSE "-"
    /\ scheduledInSegment' = 0
    /\ graceLeft' = 0
    /\ staleGrace' = Watched(NumArmedQr)
    /\ UNCHANGED <<created, sinceLastAttempt, timers, pending, fatal, clearing, cooldownLatch,
                   watch, running, store, cleared, logs>>

\* the scheduling branch without the attempt ceiling
ShouldScheduleNoCeiling(shouldReconnect) == shouldReconnect

\* the scheduling branch with the ceiling compared by <=
ShouldScheduleOffByOne(shouldReconnect) ==
    shouldReconnect /\ connectionAttempts <= maxReconnectAttempts

\* the condition of the branch of the close handler that schedules a reconnect
ShouldSchedule(shouldReconnect) ==
    shouldReconnect /\ connectionAttempts < maxReconnectAttempts

\* the else-if branch compared by >
AtCeilingOffByOne == connectionAttempts > maxReconnectAttempts

\* the condition of the else-if branch of the close handler
AtCeiling == connectionAttempts >= maxReconnectAttempts

\* a delay that does not grow with the attempt
RetryDelayConstant(attempts) == baseRetryDelay

\* const delay = this.baseRetryDelay * this.connectionAttempts (after the increment)
RetryDelay(attempts) == baseRetryDelay * attempts

\* update = { connection: 'close', lastDisconnect }; shouldReconnect is false
\* exactly when the error is a Boom with status loggedOut
UpdateClose(src, st, shouldReconnect) ==
    /\ running
    /\ Emits(src, st)
    /\ Moved(src, st, "gone")
    /\ isConnected' = FALSE
    /\ IF ShouldSchedule(shouldReconnect)
       THEN /\ connectionAttempts' = connectionAttempts + 1
            /\ timers' = SetTimeout(SetTimeout(timers, "qr", qrGracePeriod),
                                    "connect", RetryDelay(connectionAttempts'))
            /\ scheduledInSegment' = scheduledInSegment + 1
            /\ UNCHANGED <<sinceLastAttempt, cooldownLatch>>
       ELSE IF AtCeiling
       THEN /\ sinceLastAttempt' = 0
            /\ timers' = SetTimeout(timers, "qr", qrGracePeriod)
            /\ cooldownLatch' = TRUE
            /\ UNCHANGED <<connectionAttempts, scheduledInSegment>>
       ELSE /\ timers' = SetTimeout(timers, "qr", qrGracePeriod)
            /\ UNCHANGED <<connectionAttempts, sinceLastAttempt, cooldownLatch,
                           scheduledInSegment>>
    /\ act' = "-"
    /\ graceLeft' = Watched(IF qr # 0 THEN qrGracePeriod ELSE 0)
    /\ UNCHANGED <<created, qr, pending, fatal, clearing, staleGrace, watch, running, store, cleared, logs>>

(***************************************************************************)
(* Timer callbacks.  A callback runs once its deadline is reached; the     *)
(* clock does not pass an armed deadline.                                  *)
(***************************************************************************)
\* () => { if (!this.isConnected) this.qr = null }
TimerQr(t) ==
    /\ running
    /\ t \in QrTimers /\ Due(t)
    /\ timers' = timers (-) SetToBag({t})
    /\ qr' = IF ~isConnected THEN 0 ELSE qr
    /\ act' = "-"
    /\ staleGrace' = IF staleGrace > 0 THEN staleGrace - 1 ELSE 0
    /\ UNCHANGED <<socket, orphans, created, isConnected, connectionAttempts,
                   sinceLastAttempt, pending, fatal, clearing, cooldownLatch,
                   scheduledInSegment, graceLeft, watch, running, store, cleared, logs>>

\* () => this.connect(), up to the await inside connect()
TimerConnect(t) ==
    /\ running
    /\ t \in ConnectTimers /\ Due(t)
    /\ timers' = timers (-) SetToBag({t})
    /\ pending' = pending + 1
    /\ fatal' = Faulty(fatal + 1)
    /\ act' = "-"
    /\ UNCHANGED <<mgr, orphans, created, clearing, cooldownLatch, scheduledInSegment,
                   grace, running, store, cleared, logs>>

(***************************************************************************)
(* disconnect(), resetConnection(), forceConnect(), clearSession()         *)
(***************************************************************************)
\* a disconnect that also clears the attempt counter
DisconnectResetsAttempts ==
    /\ running
    /\ IF socket # "null"
       THEN /\ orphans' = End(orphans, socket)
            /\ socket' = "null"
            /\ isConnected' = FALSE
            /\ qr' = 0
            /\ graceLeft' = 0
       ELSE UNCHANGED <<orphans, socket, isConnected, qr, graceLeft>>
    /\ connectionAttempts' = 0
    /\ act' = "-"
    /\ UNCHANGED <<created, sinceLastAttempt, timers, pending, fatal, clearing,
                   cooldownLatch, scheduledInSegment, staleGrace, watch, running, store, cleared, logs>>

Disconnect ==
    /\ running
    /\ IF socket # "null"
       THEN /\ orphans' = End(orphans, socket)
            /\ socket' = "null"
            /\ isConnected' = FALSE
            /\ qr' = 0
            /\ graceLeft' = 0
       ELSE UNCHANGED <<orphans, socket, isConnected, qr, graceLeft>>
    /\ act' = "-"
    /\ UNCHANGED <<created, connectionAttempts, sinceLastAttempt, timers, pending, fatal, clearing,
                   cooldownLatch, scheduledInSegment, staleGrace, watch, running, store, cleared, logs>>

\* a reset that leaves the pairing code in place
ResetFieldsKeepsQr ==
    /\ connectionAttempts' = 0
    /\ sinceLastAttempt' = NoAttempt
    /\ isConnected' = FALSE
    /\ orphans' = End(orphans, socket)
    /\ socket' = "null"
    /\ UNCHANGED <<timers, qr>>
    /\ cooldownLatch' = FALSE
    /\ scheduledInSegment' = 0
    /\ graceLeft' = 0
    /\ UNCHANGED <<staleGrace, watch, running, store, cleared, logs>>

\* the assignments and the teardown of resetConnection()
ResetFields ==
    /\ connectionAttempts' = 0
    /\ sinceLastAttempt' = NoAttempt
    /\ qr' = 0
    /\ isConnected' = FALSE
    /\ orphans' = End(orphans, socket)
    /\ socket' = "null"
    /\ UNCHANGED timers
    /\ cooldownLatch' = FALSE
    /\ scheduledInSegment' = 0
    /\ graceLeft' = 0
    /\ UNCHANGED <<staleGrace, watch, running, store, cleared, logs>>

ResetConnection ==
    /\ running
    /\ ResetFields
    /\ act' = "resetConnection"
    /\ UNCHANGED <<created, pending, fatal, clearing>>

\* a forceConnect() that returns early in the cooldown or at the ceiling
ForceConnectGated ==
    /\ running
    /\ IF InCooldown \/ AtCeiling
       THEN /\ act' = "forceConnect"
            /\ UNCHANGED <<mgr, orphans, created, timers, pending, fatal, clearing,
                           cooldownLatch, scheduledInSegment, grace, running, store, cleared, logs>>
       ELSE /\ Budget
            /\ ResetFields
            /\ pending' = pending + 1
            /\ act' = "-"
            /\ UNCHANGED <<created, clearing, fatal>>

\* resetConnection(), then connect() up to its await; the call is recorded
\* when it is made in the cooldown or at the attempt ceiling
ForceConnect ==
    /\ running
    /\ Budget
    /\ ResetFields
    /\ pending' = pending + 1
    /\ act' = IF InCooldown \/ AtCeiling THEN "forceConnect" ELSE "-"
    /\ UNCHANGED <<created, clearing, fatal>>

\* clearSession() up to its first await inside the try block:
\* disconnect(), then the four assignments
ClearSession ==
    /\ running
    /\ Budget
    /\ ResetFields
    /\ clearing' = clearing + 1
    /\ act' = "-"
    /\ UNCHANGED <<created, pending, fatal>>

\* clearSession(): the directory is listed and the deletion loop runs to its
\* end with no fs.rm failing, connect() runs up to its await; the value
\* recorded is returned when that connect() has resolved
ClearSessionConnect ==
    /\ running
    /\ clearing > 0
    /\ LET files == Readdir(store)
           loop == ClearLoop(files, {}, {})
       IN /\ ~loop.threw
          /\ store' = store \ loop.removed
          /\ cleared' = Clearing([kind |-> "ok", deletedFiles |-> DeletedFiles(files)])
    /\ clearing' = clearing - 1
    /\ pending' = pending + 1
    /\ act' = "-"
    /\ UNCHANGED <<mgr, orphans, created, timers, fatal, cooldownLatch, scheduledInSegment,
                   grace, running, logs>>

\* clearSession(): fs.readdir rejects (listed is false), or fs.rm rejects on a
\* file; the catch block logs and rethrows, connect() is not called
ClearSessionFail ==
    /\ running
    /\ clearing > 0
    /\ \E failing \in SUBSET Files, listed \in BOOLEAN :
          LET loop == IF listed THEN ClearLoop(Readdir(store), failing, {})
                      ELSE [threw |-> TRUE, removed |-> {}]
          IN /\ loop.threw
             /\ store' = store \ loop.removed
             /\ cleared' = Clearing([kind |-> "error", deletedFiles |-> <<>>])
    /\ clearing' = clearing - 1
    /\ act' = "-"
    /\ UNCHANGED <<mgr, orphans, created, timers, pending, fatal, cooldownLatch,
                   scheduledInSegment, grace, running, logs>>

\* creds.update: saveCreds writes the credentials of a live transport
SaveCreds(src) ==
    /\ running
    /\ Emits(src, "connecting") \/ Emits(src, "open")
    /\ store' = store \cup {"creds.json"}
    /\ act' = "-"
    /\ UNCHANGED <<mgr, orphans, created, timers, pending, fatal, clearing, cooldownLatch,
                   scheduledInSegment, grace, running, cleared, logs>>

(***************************************************************************)
(* The clock: time passes in steps of at most TickStep, never beyond an    *)
(* armed deadline.  The file operations awaited by connect() and           *)
(* clearSession() take less than one step of the clock.                    *)
(***************************************************************************)
TickStep == baseRetryDelay

Elapse == IF timers = EmptyBag THEN TickStep
          ELSE LET m == CHOOSE t \in BagToSet(timers) :
                            \A u \in BagToSet(timers) : t.left <= u.left
               IN Min(TickStep, m.left)

Age(tb, d) ==
    LET S == BagToSet(tb)
    IN [t \in {[u EXCEPT !.left = u.left - d] : u \in S} |->
            tb[[t EXCEPT !.left = t.left + d]]]

Tick ==
    /\ running
    /\ \A t \in BagToSet(timers) : ~Due(t)
    /\ timers # EmptyBag \/ (sinceLastAttempt # NoAttempt /\ sinceLastAttempt < cooldownPeriod)
    /\ (pending = 0 /\ clearing = 0) \/ created = MaxHandles
    /\ timers' = Age(timers, Elapse)
    /\ sinceLastAttempt' = IF sinceLastAttempt = NoAttempt THEN NoAttempt
                           ELSE Min(sinceLastAttempt + Elapse, cooldownPeriod)
    /\ act' = "-"
    /\ graceLeft' = IF graceLeft > Elapse THEN graceLeft - Elapse ELSE 0
    /\ UNCHANGED <<socket, orphans, created, qr, isConnected, connectionAttempts,
                   pending, fatal, clearing, cooldownLatch, scheduledInSegment, staleGrace, watch, running, store, cleared, logs>>

Next ==
    \/ Initialize
    \/ Connect
    \/ \E src \in Sources, code \in 1..MaxQr : UpdateQr(src, code)
    \/ \E src \in Sources : UpdateOpen(src)
    \/ \E src \in Sources, st \in {"connecting", "open", "ended"}, sr \in BOOLEAN :
            UpdateClose(src, st, sr)
    \/ \E t \in BagToSet(timers) : TimerQr(t)
    \/ \E t \in BagToSet(timers) : TimerConnect(t)
    \/ Disconnect
    \/ ResetConnection
    \/ ForceConnect
    \/ ClearSession
    \/ ClearSessionConnect
    \/ Tick

Spec == Init /\ [][Next]_vars

\* the same program, recording the history of the grace window
GraceSpec == GraceInit /\ [][Next]_vars

\* the program in an environment where the file operations it awaits and
\* the construction of a transport may fail
FaultNext ==
    \/ Next
    \/ ConnectFail
    \/ ClearSessionFail

FaultSpec == FaultInit /\ [][FaultNext]_vars

\* clearSession() alone, on every content of the session directory
ClearNext ==
    \/ ClearSession
    \/ ClearSessionConnect
    \/ ClearSessionFail
    \/ Connect
    \/ ConnectFail
    \/ \E src \in Sources : SaveCreds(src)

ClearSpec == ClearInit /\ [][ClearNext]_vars

\* the steps the runtime takes on its own: a due timer runs, an awaited file
\* operation completes, time passes
Runtime ==
    \/ Tick
    \/ \E t \in BagToSet(timers) : TimerQr(t)
    \/ \E t \in BagToSet(timers) : TimerConnect(t)
    \/ Connect
    \/ ClearSessionConnect

\* the runtime does not stop while one of its steps is possible
FairSpec == Init /\ [][Next]_vars /\ WF_vars(Runtime)

(***************************************************************************)
(* getStatus(), getDetailedStatus()                                        *)
(***************************************************************************)
GetStatus ==
    [isConnected |-> isConnected, hasQR |-> qr # 0, connectionAttempts |-> connectionAttempts]

\* a cooldownRemaining computed without asking whether an attempt was recorded
CooldownRemainingNoNullCheck == cooldownPeriod - sinceLastAttempt

\* cooldownRemaining, in milliseconds
CooldownRemaining ==
    IF sinceLastAttempt # NoAttempt THEN cooldownPeriod - sinceLastAttempt ELSE 0

\* Math.ceil(ms / 1000)
CeilSeconds(ms) == (ms + 999) \div 1000

\* cooldownEndsAt: null, or the ISO rendering of lastConnectionAttempt +
\* cooldownPeriod, kept as its distance from the present
CooldownEndsAt ==
    IF sinceLastAttempt # NoAttempt
    THEN [kind |-> "iso", fromNow |-> cooldownPeriod - sinceLastAttempt]
    ELSE [kind |-> "null", fromNow |-> 0]

GetDetailedStatus ==
    [isConnected |-> isConnected, hasQR |-> qr # 0, connectionAttempts |-> connectionAttempts,
     maxReconnectAttempts |-> maxReconnectAttempts, inCooldown |-> CooldownRemaining > 0,
     cooldownRemaining |-> CeilSeconds(CooldownRemaining),
     cooldownEndsAt |-> CooldownEndsAt,
     hasSocket |-> socket # "null"]

(***************************************************************************)
(* getQRCode(): null without a pairing code, otherwise the code rendered   *)
(* as a data URL; rendered says whether qrcode.toDataURL succeeds.         *)
(***************************************************************************)
GetQRCode(rendered) ==
    IF qr = 0 THEN [kind |-> "null", code |-> 0]
    ELSE IF rendered THEN [kind |-> "dataURL", code |-> qr]
    ELSE [kind |-> "error", code |-> 0]

(***************************************************************************)
(* Sending (src/src/services/whatsappService.js, sendMessage, and          *)
(* src/src/routes/messageRoutes.js).  A send changes no field of the       *)
(* manager, so sendMessage() and the two routes that call it are operators *)
(* on the current state.  Texts the code inspects are sequences: a phone   *)
(* number is a sequence of characters, an error message a sequence of      *)
(* words.                                                                  *)
(***************************************************************************)
Digits == {"0", "1", "2", "3", "4", "5", "6", "7", "8", "9"}

\* phoneNumber.replace(/\D/g, '')
StripNonDigits(str) == SelectSeq(str, LAMBDA c : c \in Digits)

\* /^\+?[1-9]\d{1,14}$/.test(str)
PhoneRegexTest(str) ==
    LET body == IF Len(str) > 0 /\ str[1] = "+" THEN Tail(str) ELSE str
    IN /\ Len(body) \in 2..15
       /\ body[1] \in Digits \ {"0"}
       /\ \A i \in 2..Len(body) : body[i] \in Digits

\* phoneNumber.replace(/\D/g, '') + '@s.whatsapp.net'
FormatNumber(phoneNumber) == StripNonDigits(phoneNumber) \o <<"@s.whatsapp.net">>

\* haystack.includes(needle)
Includes(haystack, needle) ==
    \E i \in 0..(Len(haystack) - Len(needle)) :
        \A j \in 1..Len(needle) : haystack[i + j] = needle[j]

\* the message of the error sendMessage() throws when isConnected is false
NotConnectedMessage ==
    <<"WhatsApp", "is", "not", "connected", ".", "Please", "scan", "the", "QR", "code",
      "first", ".">>

\* the message of the TypeError of calling a method on this.socket when it is null
NullSocketMessage == <<"Cannot", "read", "properties", "of", "null">>

\* messages of the errors a failing send of the transport carries
TransportMessages == {<<"Connection", "Closed">>, <<"Timed", "Out">>}

\* result.key.id of a send the transport completed
MessageIds == {"3EB0"}

\* what the transport's send does when it is invoked
Outcomes ==
    {[ok |-> TRUE, id |-> i, message |-> <<>>] : i \in MessageIds}
        \cup {[ok |-> FALSE, id |-> "", message |-> m] : m \in TransportMessages}

\* a sendMessage() that calls the transport's send again when it failed
SendMessageRetries(phoneNumber, message, outcome) ==
    IF ~isConnected
    THEN [threw |-> TRUE, error |-> NotConnectedMessage, invoked |-> FALSE, calls |-> 0,
          jid |-> <<>>,
          messageId |-> "", to |-> <<>>]
    ELSE IF socket = "null"
    THEN [threw |-> TRUE, error |-> NullSocketMessage, invoked |-> FALSE, calls |-> 0,
          jid |-> <<>>,
          messageId |-> "", to |-> <<>>]
    ELSE IF outcome.ok
    THEN [threw |-> FALSE, error |-> <<>>, invoked |-> TRUE, calls |-> 1,
          jid |-> FormatNumber(phoneNumber),
          messageId |-> outcome.id, to |-> FormatNumber(phoneNumber)]
    ELSE [threw |-> TRUE, error |-> outcome.message, invoked |-> TRUE, calls |-> 2,
          jid |-> FormatNumber(phoneNumber), messageId |-> "", to |-> <<>>]

\* sendMessage(phoneNumber, message): threw and error describe the rejection,
\* invoked, calls and jid the calls of the transport's send, messageId and to
\* the result
SendMessage(phoneNumber, message, outcome) ==
    IF ~isConnected
    THEN [threw |-> TRUE, error |-> NotConnectedMessage, invoked |-> FALSE, calls |-> 0,
          jid |-> <<>>,
          messageId |-> "", to |-> <<>>]
    ELSE IF socket = "null"
    THEN [threw |-> TRUE, error |-> NullSocketMessage, invoked |-> FALSE, calls |-> 0,
          jid |-> <<>>,
          messageId |-> "", to |-> <<>>]
    ELSE IF outcome.ok
    THEN [threw |-> FALSE, error |-> <<>>, invoked |-> TRUE, calls |-> 1,
          jid |-> FormatNumber(phoneNumber),
          messageId |-> outcome.id, to |-> FormatNumber(phoneNumber)]
    ELSE [threw |-> TRUE, error |-> outcome.message, invoked |-> TRUE, calls |-> 1,
          jid |-> FormatNumber(phoneNumber), messageId |-> "", to |-> <<>>]

\* POST /message, behind the token check and the rate limiter
PostMessage(phoneNumber, message, outcome) ==
    IF phoneNumber = <<>> \/ message = ""
    THEN [status |-> 400, invoked |-> FALSE]
    ELSE IF ~PhoneRegexTest(StripNonDigits(phoneNumber))
    THEN [status |-> 400, invoked |-> FALSE]
    ELSE LET r == SendMessage(phoneNumber, message, outcome)
         IN IF ~r.threw THEN [status |-> 201, invoked |-> r.invoked]
            ELSE IF Includes(r.error, <<"not", "connected">>)
            THEN [status |-> 503, invoked |-> r.invoked]
            ELSE [status |-> 500, invoked |-> r.invoked]

\* POST /message, the catch block: the status and the text that tells the
\* client what went wrong (details, or message when there are no details)
PostMessageError(error) ==
    IF Includes(error, <<"not", "connected">>)
    THEN [status |-> 503, text |-> NotConnectedMessage]
    ELSE [status |-> 500, text |-> error]

\* process.env.WEBHOOK_SECRET || config.auth.apiToken
WebhookSecret == "s3cret"

\* POST /webhook/notify
WebhookNotify(secret, phoneNumber, message, outcome) ==
    IF secret # WebhookSecret
    THEN [status |-> 401, invoked |-> FALSE]
    ELSE IF phoneNumber = <<>> \/ message = ""
    THEN [status |-> 400, invoked |-> FALSE]
    ELSE LET r == SendMessage(phoneNumber, message, outcome)
         IN IF ~r.threw THEN [status |-> 200, invoked |-> r.invoked]
            ELSE [status |-> 500, invoked |-> r.invoked]

\* request bodies: "", "abc", "+1234", "(12)3-4", "012", "7"
PhoneNumbers ==
    {<<>>, <<"a", "b", "c">>, <<"+", "1", "2", "3", "4">>,
     <<"(", "1", "2", ")", "3", "-", "4">>, <<"0", "1", "2">>, <<"7">>}

Messages == {"", "hi"}

Secrets == {WebhookSecret, "wrong"}

(***************************************************************************)
(* The token check (authMiddleware) and the chain of the protected routes. *)
(* A header or query value is absent or a text; a text is a sequence of    *)
(* characters in which the scheme prefix 'Bearer ' is one element.         *)
(***************************************************************************)
\* config.auth.apiToken
ApiToken == <<"k", "1">>

NoValue == [present |-> FALSE, text |-> <<>>]

Value(text) == [present |-> TRUE, text |-> text]

\* str.replace(part, ''): the first occurrence of part is removed
ReplaceFirst(str, part) ==
    IF \E i \in 1..Len(str) : str[i] = part
    THEN LET i == CHOOSE k \in 1..Len(str) :
                        str[k] = part /\ \A j \in 1..(k - 1) : str[j] # part
         IN SubSeq(str, 1, i - 1) \o SubSeq(str, i + 1, Len(str))
    ELSE str

\* a value that || passes on: neither undefined nor the empty string
Truthy(v) == v.present /\ v.text # <<>>

\* a || b
Either(a, b) == IF Truthy(a) THEN a ELSE b

\* req.headers['authorization']?.replace('Bearer ', '') ||
\*     req.headers['x-api-token'] || req.query.token
RequestToken(req) ==
    Either(Either(IF req.authorization.present
                  THEN Value(ReplaceFirst(req.authorization.text, "Bearer "))
                  ELSE NoValue,
                  req.xApiToken),
           req.queryToken)

\* authMiddleware: 401, or 0 when next() is called
AuthMiddleware(req) ==
    LET token == RequestToken(req)
    IN IF ~Truthy(token) THEN 401
       ELSE IF token.text # ApiToken THEN 401
       ELSE 0

\* the routes declared with authMiddleware and the operation their handler calls
ProtectedEndpoints ==
    {"/message", "/status", "/reset", "/clear-session", "/disconnect", "/connect"}

Operation(endpoint) ==
    CASE endpoint = "/message" -> "sendMessage"
      [] endpoint = "/status" -> "getDetailedStatus"
      [] endpoint = "/reset" -> "resetConnection"
      [] endpoint = "/clear-session" -> "clearSession"
      [] endpoint = "/disconnect" -> "disconnect"
      [] endpoint = "/connect" -> "forceConnect"

\* a request to a protected route: the answer of a middleware that stops it,
\* whether rateLimiter ran, and the handler that was reached (withinLimit is
\* what rateLimiter finds)
Handle(endpoint, req, withinLimit) ==
    IF AuthMiddleware(req) = 401
    THEN [status |-> 401, limiter |-> FALSE, operation |-> "none"]
    ELSE IF endpoint = "/message" /\ ~withinLimit
    THEN [status |-> 429, limiter |-> TRUE, operation |-> "none"]
    ELSE [status |-> 0, limiter |-> endpoint = "/message", operation |-> Operation(endpoint)]

\* requests: the Authorization header, the X-API-Token header, ?token=
AuthorizationValues ==
    {NoValue, Value(<<>>), Value(<<"Bearer ", "k", "1">>), Value(<<"k", "1">>),
     Value(<<"Bearer ", "x">>), Value(<<"k", "Bearer ", "1">>)}

TokenValues == {NoValue, Value(ApiToken), Value(<<"x">>)}

Requests ==
    [authorization : AuthorizationValues, xApiToken : TokenValues, queryToken : TokenValues]

(***************************************************************************)
(* The calls that only read.  getStatus(), getDetailedStatus(),            *)
(* getQRCode() and sendMessage() assign no field; what they return is      *)
(* given by the operators above, evaluated in the state of the call.       *)
(***************************************************************************)
\* everything but the record of the last step
fields == <<socket, orphans, created, qr, isConnected, connectionAttempts,
            sinceLastAttempt, timers, pending, clearing, cooldownLatch,
            scheduledInSegment, graceLeft, staleGrace, watch, fatal, running, store,
            cleared, logBuffer, clients, written>>

GetStatusCall ==
    /\ running
    /\ act' = "query"
    /\ UNCHANGED fields

GetDetailedStatusCall ==
    /\ running
    /\ act' = "query"
    /\ UNCHANGED fields

GetQRCodeCall ==
    /\ running
    /\ act' = "query"
    /\ UNCHANGED fields

SendMessageCall ==
    /\ running
    /\ act' = "query"
    /\ UNCHANGED fields

\* the program with its reading calls
QueryNext ==
    \/ Next
    \/ GetStatusCall
    \/ GetDetailedStatusCall
    \/ GetQRCodeCall
    \/ SendMessageCall

QuerySpec == Init /\ [][QueryNext]_vars

(***************************************************************************)
(* The log manager (src/src/utils/logManager.js): the buffer of retained   *)
(* log entries and the responses of the open log streams.  A log entry is  *)
(* identified by the number of its broadcast() call.                       *)
(***************************************************************************)
\* this.maxBufferSize
maxBufferSize == 100

\* broadcast() calls in a run
MaxLogs == 102

\* the fields of the connection manager and the history kept with them
service == <<socket, orphans, created, qr, isConnected, connectionAttempts,
             sinceLastAttempt, timers, pending, clearing, act, cooldownLatch,
             scheduledInSegment, graceLeft, staleGrace, watch, fatal, running, store,
             cleared>>

\* `data: ${JSON.stringify(log)}\n\n`
Frame(log) == <<"data: ", log, "\n\n">>

\* the entry of the next broadcast() call
NextLog == IF logBuffer = <<>> THEN 1 ELSE logBuffer[Len(logBuffer)] + 1

\* a buffer that is never trimmed
PushKeepsAll(buffer, log) == Append(buffer, log)

\* this.logBuffer.push(log); if (length > this.maxBufferSize) this.logBuffer.shift()
Push(buffer, log) ==
    LET pushed == Append(buffer, log)
    IN IF Len(pushed) > maxBufferSize THEN Tail(pushed) ELSE pushed

\* addClient(res) for a response that just asked for the stream: the buffered
\* entries are written in order; when the response is broken every write
\* throws and the catch swallows it
AddClient(res, broken) ==
    /\ running
    /\ res \notin clients
    /\ clients' = clients \cup {res}
    /\ written' = [NoWrites EXCEPT ![res] =
                       IF broken THEN <<>>
                       ELSE [i \in 1..Len(logBuffer) |-> Frame(logBuffer[i])]]
    /\ UNCHANGED <<logBuffer, service>>

\* removeClient(res), called when the request closes
RemoveClient(res) ==
    /\ running
    /\ clients' = clients \ {res}
    /\ written' = NoWrites
    /\ UNCHANGED <<logBuffer, service>>

\* a broadcast that keeps the clients whose write failed
BroadcastKeepsFailed(log, failing) ==
    /\ running
    /\ log <= MaxLogs
    /\ failing \subseteq clients
    /\ logBuffer' = Push(logBuffer, log)
    /\ written' = [c \in Clients |-> IF c \in clients \ failing THEN <<Frame(log)>> ELSE <<>>]
    /\ clients' = clients
    /\ UNCHANGED service

\* broadcast(log): failing are the clients whose write throws
Broadcast(log, failing) ==
    /\ running
    /\ log <= MaxLogs
    /\ failing \subseteq clients
    /\ logBuffer' = Push(logBuffer, log)
    /\ written' = [c \in Clients |-> IF c \in clients \ failing THEN <<Frame(log)>> ELSE <<>>]
    /\ clients' = clients \ failing
    /\ UNCHANGED service

LogNext ==
    \/ \E res \in Clients, broken \in BOOLEAN : AddClient(res, broken)
    \/ \E res \in Clients : RemoveClient(res)
    \/ \E failing \in SUBSET Clients : Broadcast(NextLog, failing)

\* the log manager alone: log streams come and go while entries are broadcast
LogSpec == Init /\ [][LogNext]_vars

(***************************************************************************)
(* Steps of the transport events, as seen from the manager.                *)
(***************************************************************************)
\* a close event from any transport; sr is shouldReconnect
CloseStep(sr) ==
    \E src \in Sources, st \in {"connecting", "open", "ended"} : UpdateClose(src, st, sr)

\* a close event from a transport this.socket no longer refers to
StaleCloseStep ==
    \E st \in {"connecting", "open", "ended"}, sr \in BOOLEAN : UpdateClose("orphan", st, sr)

TimerConnectStep == \E t \in BagToSet(timers) : TimerConnect(t)

TimerQrStep == \E t \in BagToSet(timers) : TimerQr(t)

QrTimer == [kind |-> "qr", left |-> qrGracePeriod]

(***************************************************************************)
(* C1: in every reachable state at most one transport is live              *)
(* (constructed and neither closed nor ended).                             *)
(***************************************************************************)
C1_AtMostOneLive == LiveCount <= 1

(***************************************************************************)
(* C2: a close event from a stale (superseded) transport that arrives      *)
(* while the current transport has reported open changes none of           *)
(* isConnected, connectionAttempts, lastConnectionAttempt, qr and the set  *)
(* of armed timers.                                                        *)
(***************************************************************************)
C2_StaleCloseNoMutation ==
    [][(socket = "open" /\ StaleCloseStep) =>
          UNCHANGED <<isConnected, connectionAttempts, sinceLastAttempt, qr, timers>>]_vars

(***************************************************************************)
(* C3: resetConnection() and disconnect() cancel every armed reconnect     *)
(* timer, so that no deferred connect() armed before them fires after      *)
(* them: once either has run, no reconnect timer is armed.                 *)
(***************************************************************************)
C3_ResetCancelsBackoff ==
    [][(ResetConnection \/ Disconnect) => ConnectTimers' = {}]_vars

(***************************************************************************)
(* C4: in every reachable state isConnected implies that this.socket is    *)
(* not null.                                                               *)
(***************************************************************************)
C4_ConnectedImpliesSocket == isConnected => socket # "null"

(***************************************************************************)
(* C5: in every reachable state connectionAttempts is between 0 and        *)
(* maxReconnectAttempts inclusive.                                         *)
(***************************************************************************)
C5_AttemptsBounded == connectionAttempts \in 0..maxReconnectAttempts

\* the counter is at the ceiling and a further close has been handled there
C5_Witness == connectionAttempts = maxReconnectAttempts /\ cooldownLatch

(***************************************************************************)
(* C6: for every n in [0, maxReconnectAttempts), a close event that is     *)
(* not a logged-out close, handled with connectionAttempts = n, sets       *)
(* connectionAttempts to n + 1 and arms exactly one reconnect timer, with  *)
(* delay baseRetryDelay * (n + 1) (next to the pairing-code grace timer);  *)
(* an armed reconnect timer leaves the set of timers only by firing, and   *)
(* again and again all armed reconnect timers have fired.                  *)
(***************************************************************************)
NumArmedConnect == BagCardinality([t \in ConnectTimers |-> timers[t]])

C6_LinearBackoff ==
    /\ [][\A n \in 0..(maxReconnectAttempts - 1) :
            (connectionAttempts = n /\ CloseStep(TRUE)) =>
                /\ connectionAttempts' = n + 1
                /\ timers' = (timers (+) SetToBag({QrTimer}))
                              (+) SetToBag({[kind |-> "connect",
                                             left |-> baseRetryDelay * (n + 1)]})]_vars
    /\ [][NumArmedConnect' < NumArmedConnect =>
            (TimerConnectStep /\ NumArmedConnect' = NumArmedConnect - 1)]_vars
    /\ []<>(NumArmedConnect = 0)

\* the second reconnect of a row has been scheduled, with twice the base delay
C6_Witness ==
    /\ connectionAttempts = maxReconnectAttempts
    /\ BagIn([kind |-> "connect", left |-> baseRetryDelay * maxReconnectAttempts], timers)

(***************************************************************************)
(* C7: a close event handled with connectionAttempts =                     *)
(* maxReconnectAttempts arms no reconnect timer, leaves connectionAttempts *)
(* unchanged and sets lastConnectionAttempt to the current time.           *)
(***************************************************************************)
C7_CeilingClose ==
    [][\A sr \in BOOLEAN :
          (connectionAttempts = maxReconnectAttempts /\ CloseStep(sr)) =>
              /\ connectionAttempts' = connectionAttempts
              /\ sinceLastAttempt' = 0
              /\ timers' = timers (+) SetToBag({QrTimer})]_vars

\* a close has just been handled at the ceiling and no reconnect is armed
C7_Witness ==
    /\ cooldownLatch
    /\ sinceLastAttempt = 0
    /\ connectionAttempts = maxReconnectAttempts
    /\ ConnectTimers = {}

(***************************************************************************)
(* C8: once a close event at the attempt ceiling has started the cooldown, *)
(* no timer-driven connect() runs until initialize() or an operator call   *)
(* (forceConnect, resetConnection, clearSession) is made.                  *)
(***************************************************************************)
C8_NoAutoConnectInCooldown == [][cooldownLatch => ~TimerConnectStep]_vars

(***************************************************************************)
(* C9: in a segment without an open event and without an operator reset    *)
(* (resetConnection, forceConnect, clearSession) at most                   *)
(* maxReconnectAttempts reconnects are scheduled, and again and again no   *)
(* reconnect timer is armed.                                               *)
(***************************************************************************)
C9_BoundedReconnects ==
    /\ [](scheduledInSegment <= maxReconnectAttempts)
    /\ []<>(ConnectTimers = {})

\* the ceiling of scheduled reconnects is reached and all of them have fired
C9_Witness ==
    /\ scheduledInSegment = maxReconnectAttempts
    /\ ConnectTimers = {}

(***************************************************************************)
(* C10: initialize() called while lastConnectionAttempt is set and less    *)
(* than cooldownPeriod old returns early: it constructs no transport,      *)
(* starts no connect(), and leaves socket, isConnected,                    *)
(* connectionAttempts, lastConnectionAttempt and qr unchanged.             *)
(***************************************************************************)
C10_InitializeInCooldown ==
    [][(/\ sinceLastAttempt # NoAttempt
        /\ sinceLastAttempt < cooldownPeriod
        /\ act' \in {"initialize", "initializeRefused"}) =>
          /\ act' = "initializeRefused"
          /\ UNCHANGED <<socket, orphans, created, isConnected, connectionAttempts,
                         sinceLastAttempt, qr, timers, pending, clearing>>]_vars

\* an initialize() call has just been refused
C10_Witness == act = "initializeRefused"

(***************************************************************************)
(* C11: an open event, from whichever transport, always sets isConnected   *)
(* to true, clears the pairing code and resets connectionAttempts to 0,    *)
(* whatever their values were before.                                      *)
(***************************************************************************)
\* a transport reports open
OpenEvent ==
    \E src \in Sources : Emits(src, "connecting") /\ Moved(src, "connecting", "open")

C11_OpenResets ==
    [][OpenEvent => (isConnected' = TRUE /\ qr' = 0 /\ connectionAttempts' = 0)]_vars

\* an open event has just overwritten a pairing code and a non-zero counter
C11_Witness == act = "open" /\ isConnected /\ qr = 0 /\ connectionAttempts = 0

(***************************************************************************)
(* C12: from any reachable state, right after resetConnection() the status *)
(* is {isConnected: false, hasQR: false, connectionAttempts: 0},           *)
(* this.socket and lastConnectionAttempt are null (so inCooldown is        *)
(* false), and the call has neither constructed a transport nor started a  *)
(* connect().                                                              *)
(***************************************************************************)
C12_ResetStatus ==
    [][act' = "resetConnection" =>
          /\ GetStatus' = [isConnected |-> FALSE, hasQR |-> FALSE, connectionAttempts |-> 0]
          /\ socket' = "null"
          /\ sinceLastAttempt' = NoAttempt
          /\ GetDetailedStatus'.inCooldown = FALSE
          /\ created' = created
          /\ pending' = pending
          /\ clearing' = clearing]_vars

\* resetConnection() has just run on a manager whose transport was live
\* while reconnect timers were armed
C12_Witness ==
    /\ act = "resetConnection"
    /\ orphans.ended > 0
    /\ ConnectTimers # {}
    /\ GetStatus = [isConnected |-> FALSE, hasQR |-> FALSE, connectionAttempts |-> 0]

C14_LoggedOutNoReconnect ==
    [][CloseStep(FALSE) =>
          /\ connectionAttempts' = connectionAttempts
          /\ NumArmedConnect' = NumArmedConnect
          /\ ConnectTimers' = {}]_vars

(***************************************************************************)
(* C15: a pairing code that exists when a close event is handled at time T *)
(* can still be fetched with getQRCode() at any time before T + 120 s, and *)
(* is gone once the grace timer of that close has fired at T + 120 s,      *)
(* provided no open event (nor a new pairing code or an operator call)     *)
(* intervenes.                                                             *)
(***************************************************************************)
C15_GraceWindow ==
    /\ [](graceLeft > 0 => GetQRCode(TRUE).kind = "dataURL")
    /\ [][(TimerQrStep /\ staleGrace = 0) => qr' = 0]_vars

(***************************************************************************)
(* C16: the clearing scheduled by a close event does not take effect when  *)
(* an open event arrives before the grace window elapses: the firing of a  *)
(* grace timer that was armed before the last open event never clears a    *)
(* pairing code, also not one issued after a later close.                  *)
(***************************************************************************)
C16_OpenVoidsGraceTimer ==
    [][(TimerQrStep /\ staleGrace > 0) => qr' = qr]_vars

(***************************************************************************)
(* C17: sendMessage() with a valid destination and isConnected = true      *)
(* calls the transport's send with the normalized address and, when that   *)
(* send completes, returns a non-empty message id together with the        *)
(* normalized address; with isConnected = false it throws the              *)
(* not-connected error and the transport's send is not called.             *)
(***************************************************************************)
C17_Send ==
    \A phoneNumber \in PhoneNumbers, outcome \in Outcomes :
        PhoneRegexTest(phoneNumber) =>
            LET r == SendMessage(phoneNumber, "hi", outcome)
                address == StripNonDigits(phoneNumber) \o <<"@s.whatsapp.net">>
            IN /\ isConnected =>
                    /\ r.invoked /\ r.jid = address
                    /\ outcome.ok => (~r.threw /\ r.messageId # "" /\ r.to = address)
               /\ ~isConnected =>
                    (r.threw /\ r.error = NotConnectedMessage /\ ~r.invoked)

(***************************************************************************)
(* C18: a send request whose destination is not of the international       *)
(* shape (such as "abc") or whose body is empty is answered with the       *)
(* validation error 400 and the transport's send is not called, whatever   *)
(* the connection state, on the message endpoint and on the webhook        *)
(* endpoint alike.                                                         *)
(***************************************************************************)
C18_InvalidRejected ==
    \A phoneNumber \in PhoneNumbers, message \in Messages, outcome \in Outcomes :
        (~PhoneRegexTest(phoneNumber) \/ message = "") =>
            /\ PostMessage(phoneNumber, message, outcome) = [status |-> 400, invoked |-> FALSE]
            /\ WebhookNotify(WebhookSecret, phoneNumber, message, outcome)
                    = [status |-> 400, invoked |-> FALSE]

(***************************************************************************)
(* C19: for a request that passes validation the message endpoint answers  *)
(* 503 exactly when the send was refused because isConnected is false, 500 *)
(* exactly when the transport's send was called and failed, and 201 only   *)
(* when the transport's send was called and completed.                     *)
(***************************************************************************)
C19_StatusCodes ==
    \A phoneNumber \in PhoneNumbers, message \in Messages, outcome \in Outcomes :
        LET q == PostMessage(phoneNumber, message, outcome)
        IN q.status # 400 =>
            /\ q.status = 503 <=> ~isConnected
            /\ q.status = 500 <=> (q.invoked /\ ~outcome.ok)
            /\ q.status = 201 => (q.invoked /\ outcome.ok)

(***************************************************************************)
(* C20: from any reachable state, once disconnect() has returned,          *)
(* isConnected is false, qr and this.socket are null, and no transport is  *)
(* live any more.                                                          *)
(***************************************************************************)
C20_Disconnected ==
    [][Disconnect =>
          (~isConnected' /\ qr' = 0 /\ socket' = "null" /\ LiveCount' = 0)]_vars

\* the fields of the service object and the transports it left behind
Current ==
    [socket |-> socket, isConnected |-> isConnected, qr |-> qr,
     connectionAttempts |-> connectionAttempts,
     sinceLastAttempt |-> sinceLastAttempt, orphans |-> orphans]

\* disconnect() applied to the fields s
DisconnectOf(s) ==
    IF s.socket # "null"
    THEN [s EXCEPT !.orphans = End(s.orphans, s.socket), !.socket = "null",
                   !.isConnected = FALSE, !.qr = 0]
    ELSE s

(***************************************************************************)
(* C21: disconnect() is idempotent: called while no transport referenced   *)
(* by this.socket is live it changes no field and ends no transport, and   *)
(* two calls in a row leave the state one call leaves.                     *)
(***************************************************************************)
C21_DisconnectIdempotent ==
    /\ [][Disconnect => Current' = DisconnectOf(Current)]_vars
    /\ [][(Disconnect /\ ~IsLive(socket)) => Current' = Current]_vars
    /\ [](DisconnectOf(DisconnectOf(Current)) = DisconnectOf(Current))

(***************************************************************************)
(* C22: clearSession() runs its three steps in order and apart from any    *)
(* live session: the transport of this.socket is ended before a file is    *)
(* deleted, no transport is live and none is constructed while the files   *)
(* are being deleted, and its connect() starts after the deletions.        *)
(***************************************************************************)
C22_ClearExclusive ==
    /\ [][ClearSession => socket' = "null" /\ orphans' = End(orphans, socket)]_vars
    /\ [](clearing > 0 => LiveCount = 0)
    /\ [][clearing > 0 => ~Connect]_vars
    /\ [][ClearSessionConnect => (clearing > 0 /\ created' = created)]_vars

(***************************************************************************)
(* C26: isConnected is true exactly from the open event of the transport   *)
(* this.socket refers to until that transport's close: isConnected implies *)
(* that transport is open, and while it is open isConnected is not false.  *)
(***************************************************************************)
C26_ConnectedIffOpen ==
    /\ isConnected => socket = "open"
    /\ socket = "open" => isConnected

\* an open event from any transport
OpenStep == \E src \in Sources : UpdateOpen(src)

(***************************************************************************)
(* C27: the inCooldown flag of getDetailedStatus() becomes true only by a  *)
(* close event at the attempt ceiling or by an initialize() refused inside *)
(* the window; an initialize() that went through, followed by an open      *)
(* event with no ceiling close in between, does not leave it true.         *)
(***************************************************************************)
C27_CooldownEntry ==
    /\ [][(~GetDetailedStatus.inCooldown /\ GetDetailedStatus'.inCooldown) =>
              \/ AtCeiling /\ \E sr \in BOOLEAN : CloseStep(sr)
              \/ act' = "initializeRefused"]_vars
    /\ [][(OpenStep /\ ~cooldownLatch) => ~GetDetailedStatus'.inCooldown]_vars

(***************************************************************************)
(* C28: lastConnectionAttempt is the time of the most recent connection    *)
(* attempt: after every step that invokes connect() -- initialize(), a     *)
(* backoff timer, forceConnect(), clearSession() -- it equals the time of  *)
(* that step.                                                              *)
(***************************************************************************)
C28_LastAttemptRecorded ==
    [][(act' = "initialize" \/ TimerConnectStep \/ ForceConnect \/ ClearSessionConnect) =>
          (pending' = pending + 1 /\ sinceLastAttempt' = 0)]_vars

\* the close event of a transport that was ended by a teardown
EndedCloseStep == \E sr \in BOOLEAN : UpdateClose("orphan", "ended", sr)

(***************************************************************************)
(* C29: after resetConnection() or disconnect() the service stays without  *)
(* a session until an explicit call: the close event of the transport that *)
(* was torn down does not increment connectionAttempts, does not set       *)
(* lastConnectionAttempt and arms no reconnect timer.                      *)
(***************************************************************************)
C29_TeardownCloseInert ==
    [][EndedCloseStep =>
          /\ connectionAttempts' = connectionAttempts
          /\ sinceLastAttempt' = sinceLastAttempt
          /\ NumArmedConnect' = NumArmedConnect]_vars

(***************************************************************************)
(* C30: isConnected implies that there is no pairing code; and no state is *)
(* reachable that has a pairing code while isConnected is false, no        *)
(* transport is live, no connect() is in flight or scheduled and no grace  *)
(* timer is armed.                                                         *)
(***************************************************************************)
C30_QrConsistent ==
    /\ isConnected => qr = 0
    /\ ~(/\ qr # 0
         /\ ~isConnected
         /\ LiveCount = 0
         /\ pending = 0 /\ clearing = 0 /\ ConnectTimers = {}
         /\ QrTimers = {})

(***************************************************************************)
(* C24: when connect() throws, the error reaches its caller and no retry   *)
(* follows from it: the step ends the pending call, assigns no field,      *)
(* leaves connectionAttempts as it was and arms no timer (a caller that    *)
(* does not catch takes the process, and every timer with it, down).       *)
(***************************************************************************)
C24_ConnectFailureNoRetry ==
    [][ConnectFail =>
          /\ act' \in {"connectFailed", "exit"}
          /\ pending' < pending
          /\ connectionAttempts' <= connectionAttempts
          /\ NumArmedConnect' <= NumArmedConnect
          /\ act' = "connectFailed" =>
                /\ pending' = pending - 1
                /\ UNCHANGED <<mgr, orphans, created, timers, clearing, running>>]_vars

\* a connect() has thrown after a close event had counted an attempt, and
\* the service is left with no session and no connect() in flight
C24_Witness ==
    /\ act = "connectFailed"
    /\ connectionAttempts > 0
    /\ pending = 0
    /\ LiveCount = 0

(***************************************************************************)
(* C25: no failure of connect() brings the process down: whoever called    *)
(* connect() -- initialize(), forceConnect(), clearSession() or a          *)
(* reconnect timer -- the error is caught by a caller and the process      *)
(* keeps running.                                                          *)
(***************************************************************************)
C25_FailureRecovered ==
    /\ [][ConnectFail => (act' = "connectFailed" /\ running')]_vars
    /\ []running

\* POST /clear-session: connected says whether the connect() of clearSession()
\* resolved
PostClearSession(result, connected) ==
    IF result.kind = "ok" /\ connected
    THEN [status |-> 200, success |-> TRUE, deletedFiles |-> result.deletedFiles]
    ELSE [status |-> 500, success |-> FALSE, deletedFiles |-> <<>>]

\* the elements of a sequence
Range(seq) == {seq[i] : i \in 1..Len(seq)}

(***************************************************************************)
(* C23: when fs.rm fails on a file of the session directory,               *)
(* clearSession() throws and the route answers 500, not success; the list  *)
(* of deleted files is returned only when every deletion succeeded, and it *)
(* then holds every file of the directory except the sentinel.             *)
(***************************************************************************)
C23_DeletionFailureSurfaced ==
    /\ [](\A dir \in SUBSET Files, failing \in SUBSET Files :
            LET loop == ClearLoop(Readdir(dir), failing, {})
            IN /\ loop.threw <=> failing \cap (dir \ {Sentinel}) # {}
               /\ Sentinel \notin loop.removed
               /\ ~loop.threw => loop.removed = dir \ {Sentinel})
    /\ [][ClearSessionFail =>
            /\ cleared'.kind = "error"
            /\ pending' = pending
            /\ \A connected \in BOOLEAN :
                  PostClearSession(cleared', connected) =
                      [status |-> 500, success |-> FALSE, deletedFiles |-> <<>>]]_vars
    /\ [][ClearSessionConnect =>
            /\ cleared'.kind = "ok"
            /\ store' \subseteq {Sentinel}
            /\ Range(cleared'.deletedFiles) = store \ {Sentinel}
            /\ PostClearSession(cleared', TRUE).deletedFiles = cleared'.deletedFiles
            /\ PostClearSession(cleared', FALSE).status = 500]_vars

\* fs.rm failed on pre-key-1.json: the file is still there, the call threw
\* and started no connect()
C23_Witness ==
    /\ cleared.kind = "error"
    /\ store = {Sentinel, "pre-key-1.json"}
    /\ pending = 0 /\ clearing = 0 /\ created = 0

CarriesToken(req) ==
    \/ req.authorization = Value(<<"Bearer ">> \o ApiToken)
    \/ req.authorization = Value(ApiToken)
    \/ req.xApiToken = Value(ApiToken)
    \/ req.queryToken = Value(ApiToken)

InternationalShape(str) ==
    LET body == IF Len(str) > 0 /\ str[1] = "+" THEN Tail(str) ELSE str
    IN /\ Len(body) \in 2..15
       /\ \A i \in 1..Len(body) : body[i] \in Digits

(***************************************************************************)
(* C34: POST /message accepts a destination (does not answer 400 for a     *)
(* non-empty message) if and only if the destination is an optional        *)
(* leading '+' followed only by digits, 2 to 15 of them; a destination     *)
(* with other characters is rejected as invalid.                           *)
(***************************************************************************)
C34_DestinationShape ==
    \A phoneNumber \in PhoneNumbers \ {<<>>}, outcome \in Outcomes :
        PostMessage(phoneNumber, "hi", outcome).status # 400 <=> InternationalShape(phoneNumber)

C36_AttemptsFrame ==
    /\ [][(connectionAttempts < maxReconnectAttempts
             /\ connectionAttempts' # connectionAttempts + 1) => ~CloseStep(TRUE)]_vars
    /\ [][connectionAttempts' # 0 =>
              ~(OpenStep \/ ResetConnection \/ ForceConnect \/ ClearSession)]_vars
    /\ [][connectionAttempts' # connectionAttempts =>
              /\ \/ /\ connectionAttempts < maxReconnectAttempts
                     /\ connectionAttempts' = connectionAttempts + 1
                     /\ CloseStep(TRUE)
                 \/ /\ connectionAttempts' = 0
                     /\ (OpenStep \/ ResetConnection \/ ForceConnect \/ ClearSession)
              /\ ~(\/ Initialize \/ Connect \/ ClearSessionConnect \/ Disconnect
                   \/ SendMessageCall \/ GetStatusCall \/ GetDetailedStatusCall
                   \/ GetQRCodeCall
                   \/ \E src \in Sources, code \in 1..MaxQr : UpdateQr(src, code)
                   \/ TimerQrStep \/ TimerConnectStep \/ Tick
                   \/ CloseStep(FALSE)
                   \/ (CloseStep(TRUE) /\ connectionAttempts >= maxReconnectAttempts))]_vars

\* a disconnect() has just run with the counter at the ceiling and left it there
C36_Witness ==
    /\ act = "-"
    /\ connectionAttempts = maxReconnectAttempts
    /\ socket = "null" /\ ~isConnected /\ qr = 0
    /\ NumArmedConnect > 0

C38_BufferBounded ==
    /\ [](Len(logBuffer) <= maxBufferSize)
    /\ [](LET n == NextLog - 1
          IN /\ Len(logBuffer) = Min(n, maxBufferSize)
             /\ \A i \in 1..Len(logBuffer) : logBuffer[i] = n - Len(logBuffer) + i)
    /\ [][\A failing \in SUBSET Clients :
              Broadcast(NextLog, failing) =>
                  logBuffer' = IF Len(logBuffer) < maxBufferSize
                               THEN Append(logBuffer, NextLog)
                               ELSE Append(Tail(logBuffer), NextLog)]_vars

\* two entries have been evicted from a full buffer
C38_Witness ==
    /\ Len(logBuffer) = maxBufferSize
    /\ logBuffer[1] = 3
    /\ logBuffer[maxBufferSize] = maxBufferSize + 2

(***************************************************************************)
(* C39: a client added with addClient() is in the client set and, when the *)
(* writes to it succeed, is written the buffered entries in buffer order;  *)
(* every broadcast() writes its entry exactly once to each client of the   *)
(* set whose write succeeds; after removeClient(), and after a write to it *)
(* failed during a broadcast, a client is out of the set and is written    *)
(* nothing until it is added again, while the other clients are still      *)
(* written every broadcast.                                                *)
(***************************************************************************)
C39_LogStream ==
    /\ [][\A res \in Clients, broken \in BOOLEAN :
              AddClient(res, broken) =>
                  /\ clients' = clients \cup {res}
                  /\ ~broken => /\ Len(written'[res]) = Len(logBuffer)
                                /\ \A i \in 1..Len(logBuffer) :
                                       written'[res][i] = Frame(logBuffer[i])
                  /\ \A c \in Clients \ {res} : written'[c] = <<>>]_vars
    /\ [][\A failing \in SUBSET Clients :
              Broadcast(NextLog, failing) =>
                  \A c \in Clients :
                      /\ c \in clients \ failing =>
                            (c \in clients' /\ written'[c] = <<Frame(NextLog)>>)
                      /\ c \in failing => (c \notin clients' /\ written'[c] = <<>>)
                      /\ c \notin clients => (c \notin clients' /\ written'[c] = <<>>)]_vars
    /\ [][\A res \in Clients :
              RemoveClient(res) => (clients' = clients \ {res} /\ written' = NoWrites)]_vars
    /\ [][\A c \in Clients : (c \notin clients /\ c \notin clients') => written'[c] = <<>>]_vars

\* with a non-empty buffer, a broadcast has been written to the one client
\* that is left in the set
C39_Witness ==
    /\ clients = {"r1"}
    /\ Len(logBuffer) > 1
    /\ written["r1"] = <<Frame(NextLog - 1)>>
    /\ written["r2"] = <<>>

TypeOK ==
    /\ socket \in {"null", "connecting", "open", "closed"}
    /\ created \in 0..MaxHandles
    /\ pending \in 0..MaxHandles
    /\ qr \in 0..MaxQr
    /\ isConnected \in BOOLEAN
    /\ connectionAttempts \in Nat
    /\ sinceLastAttempt = NoAttempt \/ sinceLastAttempt \in 0..cooldownPeriod
    /\ clearing \in 0..MaxHandles
    /\ \A t \in BagToSet(timers) : t.left \in 0..qrGracePeriod
    /\ graceLeft \in 0..qrGracePeriod
    /\ staleGrace \in 0..MaxHandles
    /\ watch \in {"-", "grace", "faults", "clear"}
    /\ store \in SUBSET Files
    /\ cleared.kind \in {"none", "ok", "error"}
    /\ fatal \in 0..pending
    /\ running \in BOOLEAN
    /\ logBuffer \in Seq(1..(MaxLogs + 1))
    /\ clients \subseteq Clients
    /\ DOMAIN written = Clients

====
